---- MODULE Spec2Model ----
(***************************************************************************)
(* Model of the ng2-grid Grid component (src/src/grid.ts): the page index, *)
(* the data provider's page/sort/filter state, the rendered records, the   *)
(* page-button window and the inferred columns.                            *)
(*                                                                         *)
(* GridDataProvider, GridSort, GridOptions and GridColumn are imported by  *)
(* grid.ts but their files are not part of src/; they are modelled from    *)
(* spec.md (sections 3, 4.1 and 6).                                        *)
(***************************************************************************)
EXTENDS Integers, Sequences, FiniteSets, TLC

(***************************************************************************)
(* Bounds of the model.                                                    *)
(***************************************************************************)
\* setPageIndex() is called with 0..MaxPageIndex (0 and the large values are
\* out of range for the data below)
MaxPageIndex == 4
\* setPageSize() is called with 1..MaxPageSize
MaxPageSize == 2
\* options.pageButtonCount is one of 1..MaxButtons
MaxButtons == 5
\* at most MaxFetches remote fetches are started in one behaviour
MaxFetches == 2
\* first rows for column inference nest at most MaxDepth levels
MaxDepth == 3
\* the endpoint of the paginator specification reports 0..MaxTotalCount records
MaxTotalCount == 6

(***************************************************************************)
(* JavaScript values.                                                      *)
(***************************************************************************)
\* `pageSize === false`: paging switched off in the provider
PageSizeFalse == -1
\* an undefined array-valued field (this.data, this.pages before refresh())
Undefined == [defined |-> FALSE, val |-> <<>>]
Def(v) == [defined |-> TRUE, val |-> v]
\* an undefined string-valued argument or field
UndefinedStr == "undefined"

TYPE_ASC == "asc"
TYPE_DESC == "desc"

\* A record is a sequence of fields <<key, value>> in declaration order; a
\* value is a scalar (a string, kept as its sequence of characters) or a
\* nested mapping.
Scalar(s) == [scalar |-> s]
Object(fs) == [fields |-> fs]
isObject(v) == "fields" \in DOMAIN v
Field(k, v) == <<k, v>>

Min(a, b) == IF a < b THEN a ELSE b
Max(a, b) == IF a > b THEN a ELSE b
\* Math.floor(n / 2) and Math.ceil(n / 2) for n >= 0
FloorHalf(n) == n \div 2
CeilHalf(n) == (n + 1) \div 2
\* Math.ceil(a / b) for a >= 0, b > 0
CeilDiv(a, b) == (a + b - 1) \div b


(***************************************************************************)
(* Records of the static collection / the remote endpoint.                 *)
(***************************************************************************)
Row(name, country) ==
    << Field("name", Scalar(name)),
       Field("country", Object(<< Field("name", Scalar(country)),
                                  Field("id", Scalar(<<"1">>)) >>)) >>

\* options.data of a local grid, and what the endpoint of a remote grid holds
SourceData ==
    << Row(<<"B", "a">>, <<"c">>),
       Row(<<"a", "b">>, <<"d">>),
       Row(<<"c">>, <<"c">>) >>

ColumnNames == {"name", "country.name"}
\* keywords typed into a filter input: none, one that matches two records of
\* SourceData, one that matches none
Keywords == {<<>>, <<"a">>, <<"z">>}
\* the columns the model types a filter keyword into
FilterColumns == {"name"}

(***************************************************************************)
(* GridDataProvider (not in src/; spec.md 4.1).                            *)
(***************************************************************************)
\* code-point order of the characters that occur in SourceData and Keywords
Alphabet == <<"1", "B", "a", "b", "c", "d", "z">>
CharCode(ch) == CHOOSE i \in 1..Len(Alphabet) : Alphabet[i] = ch
ToLower(ch) == IF ch = "B" THEN "b" ELSE ch

\* s contains k as a substring, ignoring case
Contains(s, k) ==
    \E i \in 0..(Len(s) - Len(k)) :
        \A j \in 1..Len(k) : ToLower(s[i + j]) = ToLower(k[j])

\* dotted lookup: the value at the dotted path `name` below `fields`, where
\* `prefix` is the path walked so far; NoValue when there is none
NoValue == [missing |-> TRUE]
RECURSIVE Lookup(_, _, _)
Lookup(fields, prefix, name) ==
    IF fields = <<>> THEN NoValue
    ELSE LET k == fields[1][1]
             v == fields[1][2]
             nested == IF isObject(v)
                       THEN Lookup(v.fields, prefix \o k \o ".", name)
                       ELSE NoValue
         IN  IF prefix \o k = name THEN v
             ELSE IF nested # NoValue THEN nested
             ELSE Lookup(Tail(fields), prefix, name)

\* the scalar a record shows in a column
ColumnValue(row, name) == Lookup(row, "", name).scalar

\* a < b in lexicographic code-point order
RECURSIVE StrLess(_, _)
StrLess(a, b) ==
    IF b = <<>> THEN FALSE
    ELSE IF a = <<>> THEN TRUE
    ELSE IF CharCode(a[1]) # CharCode(b[1]) THEN CharCode(a[1]) < CharCode(b[1])
    ELSE StrLess(Tail(a), Tail(b))

\* records matching every non-empty keyword (AND across columns)
ApplyFilters(rows, filters) ==
    SelectSeq(rows, LAMBDA r :
        \A c \in DOMAIN filters :
            filters[c] = <<>> \/ Contains(ColumnValue(r, c), filters[c]))

\* stable insertion of record r into the sorted sequence s
RECURSIVE InsertSorted(_, _, _, _)
InsertSorted(s, r, col, type) ==
    IF s = <<>> THEN <<r>>
    ELSE LET before == IF type = TYPE_DESC
                       THEN StrLess(ColumnValue(s[Len(s)], col), ColumnValue(r, col))
                       ELSE StrLess(ColumnValue(r, col), ColumnValue(s[Len(s)], col))
         IN  IF before
             THEN Append(InsertSorted(SubSeq(s, 1, Len(s) - 1), r, col, type), s[Len(s)])
             ELSE Append(s, r)

RECURSIVE SortRows(_, _, _)
SortRows(rows, col, type) ==
    IF rows = <<>> THEN <<>>
    ELSE InsertSorted(SortRows(SubSeq(rows, 1, Len(rows) - 1), col, type),
                      rows[Len(rows)], col, type)

\* an undefined sort column keeps the natural order
ApplySort(rows, col, type) ==
    IF col = UndefinedStr THEN rows ELSE SortRows(rows, col, type)

\* the records at positions [(page-1)*pageSize, (page-1)*pageSize + pageSize)
\* (0-based); no slicing when paging is switched off
ApplySlice(rows, page, pageSize) ==
    IF pageSize = PageSizeFalse THEN rows
    ELSE LET start == (page - 1) * pageSize
             first == Max(start, 0) + 1
             last == Min(start + pageSize, Len(rows))
         IN  IF start < 0 \/ first > last THEN <<>> ELSE SubSeq(rows, first, last)

\* what the source yields for the given page, page size, sort and filters:
\* the page's records and the count of records passing the filters
Resolve(source, q) ==
    LET matching == ApplyFilters(source, q.filters)
    IN  [records |-> ApplySlice(ApplySort(matching, q.sortColumn, q.sortType),
                                q.page, q.pageSize),
         totalCount |-> Len(matching)]


\* The provider is constructed with options.data and options.url and keeps
\* them for its lifetime; the model reads them from `options`. Nothing was
\* fetched yet at construction.
NoProvider == [undefined |-> TRUE]
NewProvider(opts) ==
    [ page |-> 1,
      pageSize |-> opts.defaultPageSize,
      sortColumn |-> UndefinedStr,
      sortType |-> TYPE_ASC,
      filters |-> [c \in FilterColumns |-> <<>>],
      data |-> <<>>,
      totalCount |-> 0 ]

\* setSort(column, direction?): an omitted direction keeps the prior one
ProviderSetSort(dp, sortColumn, sortType) ==
    [dp EXCEPT !.sortColumn = sortColumn,
               !.sortType = IF sortType = UndefinedStr THEN @ ELSE sortType]

\* setFilter(columnName, keyword): stores or overwrites the column's keyword
ProviderSetFilter(dp, columnName, value) ==
    [dp EXCEPT !.filters[columnName] = value]

\* the request fetch() builds from the provider's state at the time of the call
BuildRequest(dp) ==
    [ page |-> dp.page,
      pageSize |-> dp.pageSize,
      sortColumn |-> dp.sortColumn,
      sortType |-> dp.sortType,
      filters |-> dp.filters ]

\* what the remote endpoint answers to request q
Respond(q) == Resolve(SourceData, q)

\* a successful fetch stores the returned records and total count
ProviderStore(dp, result) ==
    [dp EXCEPT !.data = result.records, !.totalCount = result.totalCount]

\* getData() of a local provider: filter, sort and slice the static collection
\* by the provider's current state (for a local source the fetch is
\* synchronous in effect)
ProviderLocalData(dp, source) ==
    ProviderStore(dp, Resolve(source, BuildRequest(dp)))


(***************************************************************************)
(* Grid (src/src/grid.ts).                                                 *)
(***************************************************************************)
VARIABLES
    options,        \* @Input() options
    initialized,    \* ngOnInit() has run
    columns,        \* this.columns
    dataProvider,   \* this.dataProvider
    data,           \* this.data
    pageIndex,      \* this.pageIndex
    pages,          \* this.pages
    inflight,       \* fetches subscribed to whose response has not arrived:
                    \* the request's number and query; with it, what
                    \* getData() returned and how many responses had arrived
                    \* when render() started the fetch
    issued,         \* number of fetches started so far
    arrived,        \* the fetches whose response has arrived, in arrival order
    console,        \* the kinds of message written with console.log
    sortSetBy,      \* the call that last set the provider's sort state
    lastCall        \* the kind of the call or callback that ran last

vars == << options, initialized, columns, dataProvider, data, pageIndex, pages,
           inflight, issued, arrived, console, sortSetBy, lastCall >>

\* values of lastCall: nothing yet; one of the four setters; render(), by
\* itself or at the end of ngOnInit() or of a handler; a fetch's success or
\* error callback; a heading click on a column that must not be sorted
Constructing == "constructor"
SetterCall == "setter"
RenderCall == "render"
FetchCallback == "callback"
RefusedClick == "refused"

\* values of sortSetBy: the options' default sort (or none); setSort(column)
\* without a sort type; a second setSort(column) without a sort type on the
\* same column right after the first; setSort(column, type); onHeadingClick
ByDefault == "default"
BySetSort == "setSort(column)"
BySetSortAgain == "setSort(column) again"
BySetSortTyped == "setSort(column, type)"
ByHeadingClick == "onHeadingClick"

\* GridColumn: sorting is allowed for a column unless its options say otherwise
GridColumn(name, heading) == [name |-> name, heading |-> heading, sorting |-> TRUE]

\* initColumns(): this.columns (empty after construction) gets one GridColumn
\* per entry of options.columns, if any
initColumns(opts) ==
    [i \in 1..Len(opts.columns) |->
        GridColumn(opts.columns[i].name, opts.columns[i].heading)]

getData == data
getPageIndex == pageIndex
getPageSize == dataProvider.pageSize

\* getTotalPages() that answers "no pages" when the page size is false
getTotalPagesZeroWhenDisabled(dp) ==
    IF dp.pageSize = PageSizeFalse THEN 0
    ELSE CeilDiv(dp.totalCount, dp.pageSize)

\* Math.ceil(totalCount / pageSize), or 1 when the page size is false
getTotalPages(dp) ==
    IF dp.pageSize = PageSizeFalse THEN 1
    ELSE CeilDiv(dp.totalCount, dp.pageSize)

\* paginate() with offsetRight one too large (the "- 1" forgotten)
paginateWideRight(index, totalPages, buttonCount) ==
    LET pageButtonCount == Min(buttonCount, totalPages)
        offsetLeft == FloorHalf(pageButtonCount)
        offsetRight == CeilHalf(pageButtonCount)
        startIndex == index - offsetLeft
        endIndex == index + offsetRight
        first == IF startIndex < 1 THEN 1
                 ELSE IF endIndex > totalPages THEN totalPages - pageButtonCount + 1
                 ELSE startIndex
        last == IF startIndex < 1 THEN pageButtonCount
                ELSE IF endIndex > totalPages THEN totalPages
                ELSE endIndex
    IN  [i \in 1..(last - first + 1) |-> first + i - 1]

\* paginate() without the branch that moves a window running past the last
\* page back to end at it
paginateNoShiftLeft(index, totalPages, buttonCount) ==
    LET pageButtonCount == Min(buttonCount, totalPages)
        offsetLeft == FloorHalf(pageButtonCount)
        offsetRight == CeilHalf(pageButtonCount) - 1
        startIndex == index - offsetLeft
        endIndex == index + offsetRight
        first == IF startIndex < 1 THEN 1 ELSE startIndex
        last == IF startIndex < 1 THEN pageButtonCount ELSE endIndex
    IN  [i \in 1..(last - first + 1) |-> first + i - 1]

\* paginate() that takes options.pageButtonCount as it is, without the
\* Math.min with the total pages
paginateFixedCount(index, totalPages, buttonCount) ==
    LET pageButtonCount == buttonCount
        offsetLeft == FloorHalf(pageButtonCount)
        offsetRight == CeilHalf(pageButtonCount) - 1
        startIndex == index - offsetLeft
        endIndex == index + offsetRight
        first == IF startIndex < 1 THEN 1
                 ELSE IF endIndex > totalPages THEN totalPages - pageButtonCount + 1
                 ELSE startIndex
        last == IF startIndex < 1 THEN pageButtonCount
                ELSE IF endIndex > totalPages THEN totalPages
                ELSE endIndex
    IN  [i \in 1..(last - first + 1) |-> first + i - 1]

\* paginate(): the page numbers startIndex..endIndex
paginate(index, totalPages, buttonCount) ==
    LET pageButtonCount == Min(buttonCount, totalPages)
        offsetLeft == FloorHalf(pageButtonCount)
        offsetRight == CeilHalf(pageButtonCount) - 1
        startIndex == index - offsetLeft
        endIndex == index + offsetRight
        first == IF startIndex < 1 THEN 1
                 ELSE IF endIndex > totalPages THEN totalPages - pageButtonCount + 1
                 ELSE startIndex
        last == IF startIndex < 1 THEN pageButtonCount
                ELSE IF endIndex > totalPages THEN totalPages
                ELSE endIndex
    IN  [i \in 1..(last - first + 1) |-> first + i - 1]

\* getNestedKey(object): the recursive call's result is concatenated to
\* firstKey by String.concat, which returns a new string that is dropped
RECURSIVE getNestedKey(_)
getNestedKey(object) ==
    LET firstKey == object.fields[1][1]
        firstKeyValue == object.fields[1][2]
        concatenated == IF isObject(firstKeyValue)
                        THEN firstKey \o "." \o getNestedKey(firstKeyValue)
                        ELSE firstKey
    IN  firstKey

getColumnName(key, value) ==
    IF isObject(value) THEN key \o "." \o getNestedKey(value) ELSE key

\* one column per key of the first row, in declaration order
setColumnsFromData(rows) ==
    LET firstRow == rows[1]
    IN  [i \in 1..Len(firstRow) |->
            GridColumn(getColumnName(firstRow[i][1], firstRow[i][2]), firstRow[i][1])]

\* getSortType() that falls back to ascending when the column changes
getSortTypeResets(name, dp) ==
    IF name # dp.sortColumn THEN TYPE_ASC
    ELSE IF dp.sortType = TYPE_ASC THEN TYPE_DESC ELSE TYPE_ASC

\* getSortType(column)
getSortType(name, dp) ==
    IF name # dp.sortColumn THEN dp.sortType
    ELSE IF dp.sortType = TYPE_ASC THEN TYPE_DESC ELSE TYPE_ASC

isSortingAllowed(column) == options.sorting /\ column.sorting

\* refresh() that builds the window around the page of the provider's
\* request instead of this.pageIndex
refreshAroundRequestPage(cols, index, dp) ==
    /\ data' = Def(dp.data)
    /\ columns' = IF dp.data # <<>> /\ cols = <<>>
                  THEN setColumnsFromData(dp.data)
                  ELSE cols
    /\ pages' = IF options.paging
                THEN Def(paginate(dp.page, getTotalPages(dp), options.pageButtonCount))
                ELSE pages

\* refresh() that infers the columns from every non-empty page it shows
refreshInfersAlways(cols, index, dp) ==
    /\ data' = Def(dp.data)
    /\ columns' = IF dp.data # <<>>
                  THEN setColumnsFromData(dp.data)
                  ELSE cols
    /\ pages' = IF options.paging
                THEN Def(paginate(index, getTotalPages(dp), options.pageButtonCount))
                ELSE pages

\* refresh() with this.columns being cols, page index `index` and provider
\* state dp
refresh(cols, index, dp) ==
    /\ data' = Def(dp.data)
    /\ columns' = IF dp.data # <<>> /\ cols = <<>>
                  THEN setColumnsFromData(dp.data)
                  ELSE cols
    /\ pages' = IF options.paging
                THEN Def(paginate(index, getTotalPages(dp), options.pageButtonCount))
                ELSE pages

\* render() that does not copy the page index to the provider
renderKeepsProviderPage(cols, index, dp) ==
    /\ pageIndex' = index
    /\ IF options.url = UndefinedStr
       THEN LET dp2 == ProviderLocalData(dp, options.data.val)
            IN  /\ dataProvider' = dp2
                /\ data' = Def(dp2.data)
                /\ columns' = IF dp2.data # <<>> /\ cols = <<>>
                              THEN setColumnsFromData(dp2.data)
                              ELSE cols
                /\ pages' = IF options.paging
                            THEN Def(paginate(index, getTotalPages(dp2),
                                              options.pageButtonCount))
                            ELSE pages
                /\ UNCHANGED << inflight, issued >>
       ELSE /\ issued < MaxFetches
            /\ dataProvider' = dp
            /\ issued' = issued + 1
            /\ inflight' = inflight \cup
                   {[ seq |-> issued + 1,
                      query |-> BuildRequest(dp),
                      before |-> data,
                      arrivedBefore |-> Len(arrived) ]}
            /\ columns' = cols
            /\ UNCHANGED << data, pages >>

\* render() with this.columns being cols, page index `index` and provider
\* state dp (what the caller has assigned before it calls render())
render(cols, index, dp) ==
    LET dp1 == [dp EXCEPT !.page = index]
    IN  /\ pageIndex' = index
        /\ IF options.url = UndefinedStr
           THEN LET dp2 == ProviderLocalData(dp1, options.data.val)
                IN  /\ dataProvider' = dp2
                    /\ refresh(cols, index, dp2)
                    /\ UNCHANGED << inflight, issued >>
           ELSE /\ issued < MaxFetches
                /\ dataProvider' = dp1
                /\ issued' = issued + 1
                /\ inflight' = inflight \cup
                       {[ seq |-> issued + 1,
                          query |-> BuildRequest(dp1),
                          before |-> data,
                          arrivedBefore |-> Len(arrived) ]}
                /\ columns' = cols
                /\ UNCHANGED << data, pages >>


\* the elements of a sequence
Range(s) == {s[i] : i \in 1..Len(s)}

(***************************************************************************)
(* Operations.                                                             *)
(***************************************************************************)
\* ngOnInit(): initColumns(), initDataProvider(), render()
NgOnInit ==
    /\ ~initialized
    /\ lastCall' = RenderCall
    /\ initialized' = TRUE
    /\ LET dp0 == NewProvider(options)
           dp1 == IF options.defaultSortColumn # UndefinedStr
                  THEN ProviderSetSort(dp0, options.defaultSortColumn,
                                       options.defaultSortType)
                  ELSE dp0
       IN  render(initColumns(options), pageIndex, dp1)
    /\ UNCHANGED << options, arrived, console, sortSetBy >>

\* setPageIndex(pageIndex)
SetPageIndex(p) ==
    /\ initialized
    /\ lastCall' = SetterCall
    /\ pageIndex' = p
    /\ UNCHANGED << options, initialized, columns, dataProvider, data, pages,
                    inflight, issued, arrived, console, sortSetBy >>

\* setPageSize() that leaves the page index alone
SetPageSizeKeepsPage(size) ==
    /\ initialized
    /\ lastCall' = SetterCall
    /\ dataProvider' = [dataProvider EXCEPT !.pageSize = size]
    /\ UNCHANGED << options, initialized, columns, data, pageIndex, pages,
                    inflight, issued, arrived, console, sortSetBy >>

\* setPageSize(pageSize)
SetPageSize(size) ==
    /\ initialized
    /\ lastCall' = SetterCall
    /\ dataProvider' = [dataProvider EXCEPT !.pageSize = size]
    /\ pageIndex' = 1
    /\ UNCHANGED << options, initialized, columns, data, pages,
                    inflight, issued, arrived, console, sortSetBy >>

\* setFilter() that renders by itself
SetFilterRenders(columnName, value) ==
    /\ initialized
    /\ lastCall' = SetterCall
    /\ render(columns, 1, ProviderSetFilter(dataProvider, columnName, value))
    /\ UNCHANGED << options, initialized, arrived, console, sortSetBy >>

\* setFilter() that leaves the page index alone
SetFilterKeepsPage(columnName, value) ==
    /\ initialized
    /\ lastCall' = SetterCall
    /\ dataProvider' = ProviderSetFilter(dataProvider, columnName, value)
    /\ UNCHANGED << options, initialized, columns, data, pageIndex, pages,
                    inflight, issued, arrived, console, sortSetBy >>

\* setFilter(columnName, value)
SetFilter(columnName, value) ==
    /\ initialized
    /\ lastCall' = SetterCall
    /\ dataProvider' = ProviderSetFilter(dataProvider, columnName, value)
    /\ pageIndex' = 1
    /\ UNCHANGED << options, initialized, columns, data, pages,
                    inflight, issued, arrived, console, sortSetBy >>

\* setSort() that toggles the sort type itself when none is given
SetSortToggles(sortColumn, sortType) ==
    /\ initialized
    /\ lastCall' = SetterCall
    /\ dataProvider' =
          ProviderSetSort(dataProvider, sortColumn,
                          IF sortType = UndefinedStr
                          THEN getSortType(sortColumn, dataProvider)
                          ELSE sortType)
    /\ sortSetBy' = IF sortType # UndefinedStr THEN BySetSortTyped
                    ELSE IF dataProvider.sortColumn = sortColumn
                            /\ sortSetBy \in {BySetSort, BySetSortAgain}
                    THEN BySetSortAgain
                    ELSE BySetSort
    /\ UNCHANGED << options, initialized, columns, data, pageIndex, pages,
                    inflight, issued, arrived, console >>

\* setSort(sortColumn, sortType?)
SetSort(sortColumn, sortType) ==
    /\ initialized
    /\ lastCall' = SetterCall
    /\ dataProvider' = ProviderSetSort(dataProvider, sortColumn, sortType)
    /\ sortSetBy' = IF sortType # UndefinedStr THEN BySetSortTyped
                    ELSE IF dataProvider.sortColumn = sortColumn
                            /\ sortSetBy \in {BySetSort, BySetSortAgain}
                    THEN BySetSortAgain
                    ELSE BySetSort
    /\ UNCHANGED << options, initialized, columns, data, pageIndex, pages,
                    inflight, issued, arrived, console >>

\* render(), called by the application
Render ==
    /\ initialized
    /\ lastCall' = RenderCall
    /\ render(columns, pageIndex, dataProvider)
    /\ UNCHANGED << options, initialized, arrived, console, sortSetBy >>

\* a success callback that drops the response of a fetch started before one
\* whose response has been shown already
FetchSuccessDropsStale(r) ==
    /\ r \in inflight
    /\ lastCall' = FetchCallback
    /\ inflight' = inflight \ {r}
    /\ arrived' = Append(arrived, [seq |-> r.seq, ok |-> TRUE])
    /\ IF \E i \in 1..Len(arrived) : arrived[i].ok /\ arrived[i].seq > r.seq
       THEN UNCHANGED << dataProvider, data, columns, pages >>
       ELSE LET dp == ProviderStore(dataProvider, Respond(r.query))
            IN  /\ dataProvider' = dp
                /\ refresh(columns, pageIndex, dp)
    /\ UNCHANGED << options, initialized, pageIndex, issued, console, sortSetBy >>

\* the fetch's observable emits its response: the provider stores the result
\* and the success callback calls refresh()
FetchSuccess(r) ==
    /\ r \in inflight
    /\ lastCall' = FetchCallback
    /\ inflight' = inflight \ {r}
    /\ arrived' = Append(arrived, [seq |-> r.seq, ok |-> TRUE])
    /\ LET dp == ProviderStore(dataProvider, Respond(r.query))
       IN  /\ dataProvider' = dp
           /\ refresh(columns, pageIndex, dp)
    /\ UNCHANGED << options, initialized, pageIndex, issued, console, sortSetBy >>

\* the same callback for an endpoint that answers the fetch with `result`,
\* whatever the request was
FetchSuccessWith(r, result) ==
    /\ r \in inflight
    /\ lastCall' = FetchCallback
    /\ inflight' = inflight \ {r}
    /\ arrived' = Append(arrived, [seq |-> r.seq, ok |-> TRUE])
    /\ LET dp == ProviderStore(dataProvider, result)
       IN  /\ dataProvider' = dp
           /\ refresh(columns, pageIndex, dp)
    /\ UNCHANGED << options, initialized, pageIndex, issued, console, sortSetBy >>

\* an error callback that refreshes the grid as the success callback does
FetchErrorRefreshes(r) ==
    /\ r \in inflight
    /\ lastCall' = FetchCallback
    /\ inflight' = inflight \ {r}
    /\ arrived' = Append(arrived, [seq |-> r.seq, ok |-> FALSE])
    /\ console' = console \cup {"fetch error"}
    /\ dataProvider' = dataProvider
    /\ refresh(columns, pageIndex, dataProvider)
    /\ UNCHANGED << options, initialized, pageIndex, issued, sortSetBy >>

\* the fetch's observable fails: the error callback logs the error
FetchError(r) ==
    /\ r \in inflight
    /\ lastCall' = FetchCallback
    /\ inflight' = inflight \ {r}
    /\ arrived' = Append(arrived, [seq |-> r.seq, ok |-> FALSE])
    /\ console' = console \cup {"fetch error"}
    /\ UNCHANGED << options, initialized, columns, dataProvider, data, pageIndex,
                    pages, issued, sortSetBy >>

\* onPageButtonClick(event): the clicked button shows a page of this.pages
OnPageButtonClick(p) ==
    /\ initialized
    /\ pages.defined
    /\ p \in Range(pages.val)
    /\ lastCall' = RenderCall
    /\ render(columns, p, dataProvider)
    /\ UNCHANGED << options, initialized, arrived, console, sortSetBy >>

\* onPageSizeDropDownChange(event)
OnPageSizeDropDownChange(size) ==
    /\ initialized
    /\ lastCall' = RenderCall
    /\ render(columns, 1, [dataProvider EXCEPT !.pageSize = size])
    /\ UNCHANGED << options, initialized, arrived, console, sortSetBy >>

\* onFilterInputBlur(event)
OnFilterInputBlur(columnName, keyword) ==
    SetFilter(columnName, keyword)

\* onFilterInputEnter(event)
OnFilterInputEnter(columnName, keyword) ==
    /\ initialized
    /\ lastCall' = RenderCall
    /\ render(columns, 1, ProviderSetFilter(dataProvider, columnName, keyword))
    /\ UNCHANGED << options, initialized, arrived, console, sortSetBy >>

\* onHeadingClick(event): the clicked heading belongs to a column of
\* this.columns
OnHeadingClick(i) ==
    /\ initialized
    /\ i \in 1..Len(columns)
    /\ LET column == columns[i]
       IN  IF isSortingAllowed(column)
           THEN /\ render(columns, pageIndex,
                           ProviderSetSort(dataProvider, column.name,
                                           getSortType(column.name, dataProvider)))
                /\ sortSetBy' = ByHeadingClick
                /\ lastCall' = RenderCall
                /\ UNCHANGED console
           ELSE /\ console' = console \cup {"sorting not allowed"}
                /\ lastCall' = RefusedClick
                /\ UNCHANGED << columns, dataProvider, data, pageIndex, pages,
                                inflight, issued, sortSetBy >>
    /\ UNCHANGED << options, initialized, arrived >>

(***************************************************************************)
(* Specifications.                                                         *)
(***************************************************************************)
PageIndexes == 0..MaxPageIndex
PageSizes == 1..MaxPageSize
SortTypes == {UndefinedStr, TYPE_ASC, TYPE_DESC}

Constructed ==
    /\ initialized = FALSE
    /\ columns = <<>>
    /\ dataProvider = NoProvider
    /\ data = Undefined
    /\ pageIndex = 1
    /\ pages = Undefined
    /\ inflight = {}
    /\ issued = 0
    /\ arrived = <<>>
    /\ console = {}
    /\ sortSetBy = ByDefault
    /\ lastCall = Constructing

\* a grid over the static collection SourceData
LocalOptions ==
    [ url : {UndefinedStr},
      data : {Def(SourceData)},
      columns : {<<>>},
      paging : BOOLEAN,
      pageButtonCount : {2},
      defaultPageSize : {2},
      defaultSortColumn : {UndefinedStr},
      defaultSortType : {UndefinedStr},
      sorting : {TRUE} ]

Init ==
    /\ options \in LocalOptions
    /\ Constructed

Next ==
    \/ NgOnInit
    \/ \E p \in PageIndexes : SetPageIndex(p)
    \/ \E size \in PageSizes : SetPageSize(size)
    \/ \E c \in FilterColumns, k \in Keywords : SetFilter(c, k)
    \/ \E c \in ColumnNames, t \in SortTypes : SetSort(c, t)
    \/ Render
    \/ \E p \in PageIndexes : OnPageButtonClick(p)
    \/ \E size \in PageSizes : OnPageSizeDropDownChange(size)
    \/ \E c \in FilterColumns, k \in Keywords : OnFilterInputBlur(c, k)
    \/ \E c \in FilterColumns, k \in Keywords : OnFilterInputEnter(c, k)
    \/ \E i \in DOMAIN columns : OnHeadingClick(i)

Spec == Init /\ [][Next]_vars


\* a grid over a remote endpoint that holds SourceData
RemoteOptions ==
    [ url : {"/rows"},
      data : {Undefined},
      columns : {<<>>},
      paging : {TRUE},
      pageButtonCount : {2},
      defaultPageSize : {2},
      defaultSortColumn : {UndefinedStr},
      defaultSortType : {UndefinedStr},
      sorting : {TRUE} ]

InitRemote ==
    /\ options \in RemoteOptions
    /\ Constructed

NextRemote ==
    \/ NgOnInit
    \/ \E p \in PageIndexes : SetPageIndex(p)
    \/ Render
    \/ \E p \in PageIndexes : OnPageButtonClick(p)
    \/ \E size \in PageSizes : OnPageSizeDropDownChange(size)
    \/ \E c \in FilterColumns, k \in Keywords : OnFilterInputEnter(c, k)
    \/ \E i \in DOMAIN columns : OnHeadingClick(i)
    \/ \E r \in inflight : FetchSuccess(r)
    \/ \E r \in inflight : FetchError(r)

SpecRemote == InitRemote /\ [][NextRemote]_vars


(***************************************************************************)
(* The paginator on its own: getTotalPages() and paginate() for a grid     *)
(* whose provider has stored a response reporting 0..MaxTotalCount records,*)
(* with every page size, page-button count and page index.                 *)
(***************************************************************************)
\* paginate(), as refresh() calls it at the end of a render
Paginate ==
    /\ initialized
    /\ lastCall' = RenderCall
    /\ options.paging
    /\ pages' = Def(paginate(pageIndex, getTotalPages(dataProvider),
                             options.pageButtonCount))
    /\ UNCHANGED << options, initialized, columns, dataProvider, data, pageIndex,
                    inflight, issued, arrived, console, sortSetBy >>

PaginatorOptions ==
    [ url : {"/rows"},
      data : {Undefined},
      columns : {<<>>},
      paging : {TRUE},
      pageButtonCount : 1..MaxButtons,
      defaultPageSize : PageSizes \cup {PageSizeFalse},
      defaultSortColumn : {UndefinedStr},
      defaultSortType : {UndefinedStr},
      sorting : {TRUE} ]

InitPaginator ==
    /\ options \in PaginatorOptions
    /\ initialized = TRUE
    /\ columns = <<>>
    /\ \E n \in 0..MaxTotalCount :
          dataProvider = [NewProvider(options) EXCEPT !.totalCount = n]
    /\ data = Def(<<>>)
    /\ pageIndex = 1
    /\ pages = Undefined
    /\ inflight = {}
    /\ issued = 1
    /\ arrived = << [seq |-> 1, ok |-> TRUE] >>
    /\ console = {}
    /\ sortSetBy = ByDefault
    /\ lastCall = FetchCallback

NextPaginator ==
    \/ \E p \in PageIndexes : SetPageIndex(p)
    \/ \E size \in PageSizes : SetPageSize(size)
    \/ Paginate

SpecPaginator == InitPaginator /\ [][NextPaginator]_vars

(***************************************************************************)
(* Column inference on its own: ngOnInit() of a local grid whose static    *)
(* collection is one record, for every record shape up to MaxDepth levels. *)
(***************************************************************************)
SampleKeys == {"officialName", "name"}
SampleScalar == Scalar(<<"c">>)

\* the mappings nested at most d levels deep: one field, or one field
\* followed by a scalar `id`
RECURSIVE SampleObjects(_)
SampleObjects(d) ==
    LET values == IF d <= 1 THEN {SampleScalar}
                  ELSE {SampleScalar} \cup {Object(o) : o \in SampleObjects(d - 1)}
    IN  {<< Field(k, v) >> : k \in SampleKeys, v \in values}
        \cup {<< Field(k, v), Field("id", SampleScalar) >> : k \in SampleKeys, v \in values}

\* first records: one or two top-level keys, each a scalar or a mapping
SampleRows ==
    LET values == {SampleScalar} \cup {Object(o) : o \in SampleObjects(MaxDepth - 1)}
    IN  {<< Field("country", v) >> : v \in values}
        \cup {<< Field("id", v), Field("country", w) >> : v \in {SampleScalar}, w \in values}
        \cup {<< Field("country", v), Field("name", w) >> : v \in values, w \in values}

ColumnsOptions ==
    [ url : {UndefinedStr},
      data : {Def(<< row >>) : row \in SampleRows},
      columns : {<<>>},
      paging : {TRUE},
      pageButtonCount : {2},
      defaultPageSize : {2},
      defaultSortColumn : {UndefinedStr},
      defaultSortType : {UndefinedStr},
      sorting : {TRUE} ]

InitColumns ==
    /\ options \in ColumnsOptions
    /\ Constructed

NextColumns ==
    \/ NgOnInit
    \/ Render

SpecColumns == InitColumns /\ [][NextColumns]_vars


(***************************************************************************)
(* A grid over an endpoint the model knows nothing about: every fetch is   *)
(* answered with any of a few pages, whose first records differ in shape.  *)
(* options.columns is not given, or names one column.                      *)
(***************************************************************************)
\* a record without keys, and a record with the single key `id`
EmptyRecord == <<>>
IdRecord == << Field("id", Scalar(<<"1">>)) >>

\* what the endpoint may answer: no records; a page that starts with a record
\* without keys; pages whose first records have different keys
Responses ==
    { [records |-> rs, totalCount |-> 2 * Len(rs)] :
        rs \in { <<>>,
                 << EmptyRecord >>,
                 << IdRecord, SourceData[1] >>,
                 << SourceData[1], IdRecord >> } }

ExplicitColumns == << [name |-> "country.id", heading |-> "Country"] >>

EndpointOptions ==
    [ url : {"/any"},
      data : {Undefined},
      columns : {<<>>, ExplicitColumns},
      paging : {TRUE},
      pageButtonCount : {2},
      defaultPageSize : {2},
      defaultSortColumn : {UndefinedStr},
      defaultSortType : {UndefinedStr},
      sorting : {TRUE} ]

InitEndpoint ==
    /\ options \in EndpointOptions
    /\ Constructed

\* the four setters, each with one argument that changes the request, render
\* and the fetch callbacks
NextEndpoint ==
    \/ NgOnInit
    \/ SetPageIndex(2)
    \/ SetPageSize(1)
    \/ SetFilter("name", <<"a">>)
    \/ SetSort("name", UndefinedStr)
    \/ Render
    \/ \E r \in inflight, result \in Responses : FetchSuccessWith(r, result)
    \/ \E r \in inflight : FetchError(r)

SpecEndpoint == InitEndpoint /\ [][NextEndpoint]_vars


(***************************************************************************)
(* A local grid with paging whose page index is set by page-button clicks  *)
(* only: setPageIndex() is called by onPageButtonClick() and by nobody     *)
(* else. The buttons are the ones of this.pages, the window stored by the  *)
(* latest refresh().                                                       *)
(***************************************************************************)
InitButtons ==
    /\ options \in LocalOptions
    /\ options.paging
    /\ Constructed

NextButtons ==
    \/ NgOnInit
    \/ \E size \in PageSizes : SetPageSize(size)
    \/ \E c \in FilterColumns, k \in Keywords : SetFilter(c, k)
    \/ \E c \in ColumnNames, t \in SortTypes : SetSort(c, t)
    \/ Render
    \/ \E p \in PageIndexes : OnPageButtonClick(p)
    \/ \E size \in PageSizes : OnPageSizeDropDownChange(size)
    \/ \E c \in FilterColumns, k \in Keywords : OnFilterInputBlur(c, k)
    \/ \E c \in FilterColumns, k \in Keywords : OnFilterInputEnter(c, k)
    \/ \E i \in DOMAIN columns : OnHeadingClick(i)

SpecButtons == InitButtons /\ [][NextButtons]_vars


(***************************************************************************)
(* Configurations with and without a source: options.data is the static    *)
(* collection or is not given, options.url is never given. A grid that is  *)
(* given no options at all works with `new GridOptions()`, which names     *)
(* neither.                                                                *)
(***************************************************************************)
ConfigOptions ==
    [ url : {UndefinedStr},
      data : {Undefined, Def(SourceData)},
      columns : {<<>>},
      paging : BOOLEAN,
      pageButtonCount : {2},
      defaultPageSize : {2},
      defaultSortColumn : {UndefinedStr},
      defaultSortType : {UndefinedStr},
      sorting : {TRUE} ]

InitConfig ==
    /\ options \in ConfigOptions
    /\ Constructed

NextConfig ==
    \/ NgOnInit
    \/ \E p \in PageIndexes : SetPageIndex(p)
    \/ \E size \in PageSizes : SetPageSize(size)
    \/ Render

SpecConfig == InitConfig /\ [][NextConfig]_vars


(***************************************************************************)
(* Properties.                                                             *)
(***************************************************************************)
\* n = ceil(a / b), stated without division
IsCeiling(n, a, b) == n * b >= a /\ (n - 1) * b < a

\* C1: for every total count >= 0 and every page size > 0, getTotalPages()
\* is at least 1, and is ceil(totalCount / pageSize) when the total count is
\* positive.
C1_TotalPagesAtLeastOne ==
    (initialized /\ dataProvider.pageSize > 0 /\ dataProvider.totalCount >= 0) =>
        /\ getTotalPages(dataProvider) >= 1
        /\ dataProvider.totalCount > 0 =>
              IsCeiling(getTotalPages(dataProvider), dataProvider.totalCount,
                        dataProvider.pageSize)

\* s is a run of consecutive ascending integers
Consecutive(s) == \A i \in 1..(Len(s) - 1) : s[i + 1] = s[i] + 1

\* C2: when the page index is within 1..totalPages and the page-button count
\* w is within 1..totalPages, paginate() stores exactly w consecutive
\* ascending page numbers, all within 1..totalPages, the page index among
\* them.
C2_WindowAroundCurrentPage ==
    [][ Paginate =>
          LET totalPages == getTotalPages(dataProvider)
              w == options.pageButtonCount
          IN  (pageIndex \in 1..totalPages /\ w \in 1..totalPages) =>
                 /\ pages'.defined
                 /\ Len(pages'.val) = w
                 /\ Consecutive(pages'.val)
                 /\ Range(pages'.val) \subseteq 1..totalPages
                 /\ pageIndex \in Range(pages'.val) ]_vars

\* C2 witness: a full window that had to be shifted left to end at the last
\* page, and one that had to be shifted right to start at page 1.
C2_ShiftedWindow ==
    /\ pages.defined
    /\ options.pageButtonCount >= 3
    /\ Len(pages.val) = options.pageButtonCount
    /\ getTotalPages(dataProvider) > options.pageButtonCount
    /\ pageIndex = getTotalPages(dataProvider)
    /\ pages.val[Len(pages.val)] = pageIndex


\* the step is the arrival of fetch r's failure / of fetch r's response
FailureArrives(r) == r \in inflight /\ arrived' = Append(arrived, [seq |-> r.seq, ok |-> FALSE])
ResponseArrives(r) == r \in inflight /\ arrived' = Append(arrived, [seq |-> r.seq, ok |-> TRUE])

C4_ResponseAlwaysShown ==
    [][ \A r \in inflight : ResponseArrives(r) =>
          /\ data' = Def(Respond(r.query).records)
          /\ dataProvider'.totalCount = Respond(r.query).totalCount ]_vars

\* C4 witness: the fetch of ngOnInit() (page 1) was overtaken by the second
\* fetch; its response arrived last and the grid shows page 1's records,
\* which are not the records of the provider's current page and filters.
C4_StaleResponseShown ==
    /\ Len(arrived) = 2
    /\ arrived[1] = [seq |-> 2, ok |-> TRUE]
    /\ arrived[2] = [seq |-> 1, ok |-> TRUE]
    /\ inflight = {}
    /\ dataProvider.page = pageIndex
    /\ data = Def(Respond(BuildRequest(NewProvider(options))).records)
    /\ data # Def(Respond(BuildRequest(dataProvider)).records)

\* the step is a second setSort(c) without a sort type, right after a first
SecondUntypedSetSort(c) ==
    /\ sortSetBy \in {BySetSort, BySetSortAgain}
    /\ dataProvider.sortColumn = c
    /\ SetSort(c, UndefinedStr)

Opposite(type) == IF type = TYPE_ASC THEN TYPE_DESC ELSE TYPE_ASC

\* C6: the sort type a heading click chooses for its column is the opposite
\* of the current type when the column is the current sort column, and the
\* current type unchanged when it is another column.
C6_ToggleLaw ==
    [][ \A i \in DOMAIN columns :
          (lastCall' = RenderCall /\ sortSetBy' = ByHeadingClick
             /\ isSortingAllowed(columns[i]) /\ OnHeadingClick(i)) =>
              /\ dataProvider.sortType \in {TYPE_ASC, TYPE_DESC}
              /\ dataProvider'.sortColumn = columns[i].name
              /\ dataProvider'.sortType =
                    IF columns[i].name = dataProvider.sortColumn
                    THEN Opposite(dataProvider.sortType)
                    ELSE dataProvider.sortType ]_vars

\* C6 witness: a heading click has left the grid sorted descending by the
\* second column.
C6_HeadingClickDescending ==
    /\ sortSetBy = ByHeadingClick
    /\ dataProvider.sortColumn = "country.name"
    /\ dataProvider.sortType = TYPE_DESC

\* the full dotted path from key down the first keys to the first scalar
RECURSIVE FullPath(_, _)
FullPath(key, value) ==
    IF isObject(value)
    THEN key \o "." \o FullPath(value.fields[1][1], value.fields[1][2])
    ELSE key

\* C7: the columns inferred from the first record have, for every top-level
\* key, the full dotted path down the first keys to the first scalar as name
\* (the key itself for a scalar) and the top-level key as heading.
C7_InferredNameIsFullPath ==
    (initialized /\ options.data.defined /\ options.data.val # <<>>) =>
        LET firstRow == options.data.val[1]
        IN  /\ Len(columns) = Len(firstRow)
            /\ \A i \in 1..Len(firstRow) :
                  /\ columns[i].name = FullPath(firstRow[i][1], firstRow[i][2])
                  /\ columns[i].heading = firstRow[i][1]


\* a render() of a local grid has just returned
LocalRenderReturned ==
    initialized /\ options.url = UndefinedStr /\ lastCall = RenderCall

\* the count of records of the static collection passing the filters
FilteredCount(dp) == Len(ApplyFilters(options.data.val, dp.filters))
\* offset = (pageIndex - 1) * pageSize
PageOffset(index, dp) == (index - 1) * dp.pageSize

\* C8 (as claimed): when a render() of a local grid has returned, getData()
\* holds min(pageSize, totalCount - offset) records, totalCount being the
\* count of records passing the current filters.
C8_PageLengthIsMin ==
    (LocalRenderReturned /\ dataProvider.pageSize > 0) =>
        /\ data.defined
        /\ dataProvider.totalCount = FilteredCount(dataProvider)
        /\ Len(data.val) = Min(dataProvider.pageSize,
                               FilteredCount(dataProvider)
                                 - PageOffset(pageIndex, dataProvider))

\* C8 (amended): when a render() of a local grid has returned, getData()
\* holds min(pageSize, totalCount - offset) records if the page starts
\* within the filtered records (0 <= offset <= totalCount), and no record
\* otherwise (a page index below 1 or beyond the last page).
C8_PageLengthIsClippedMin ==
    (LocalRenderReturned /\ dataProvider.pageSize > 0) =>
        LET total == FilteredCount(dataProvider)
            offset == PageOffset(pageIndex, dataProvider)
        IN  /\ data.defined
            /\ dataProvider.totalCount = total
            /\ Len(data.val) = IF 0 <= offset /\ offset <= total
                               THEN Min(dataProvider.pageSize, total - offset)
                               ELSE 0

\* C8 witness: the last page of the unfiltered records is shown, shorter than
\* the page size.
C8_ShortLastPage ==
    /\ LocalRenderReturned
    /\ data.defined
    /\ pageIndex = 2
    /\ dataProvider.pageSize = 2
    /\ dataProvider.totalCount = 3
    /\ Len(data.val) = 1

WindowAfter ==
    Def(paginate(pageIndex', getTotalPages(dataProvider'), options.pageButtonCount))

C11_WindowClampedForAnyIndex ==
    [][ Paginate =>
          LET totalPages == getTotalPages(dataProvider)
          IN  /\ pages'.defined
              /\ Len(pages'.val) = Min(options.pageButtonCount, totalPages)
              /\ Consecutive(pages'.val)
              /\ Range(pages'.val) \subseteq 1..totalPages
              /\ pageIndex' = pageIndex ]_vars

\* C11 witness: paginate() has just run with a stored page index beyond the
\* last page (and, in another state, with page index 0); the window ends at
\* the last page and the page index is still out of range.
C11_WindowForIndexBeyondLastPage ==
    /\ lastCall = RenderCall
    /\ getTotalPages(dataProvider) = 3
    /\ pageIndex = MaxPageIndex
    /\ options.pageButtonCount = 2
    /\ pages = Def(<<2, 3>>)

\* C12: when the page-button count is at least the total number of pages,
\* paginate() stores exactly 1..totalPages for every page index within
\* 1..totalPages.
C12_AllPagesWhenFewerThanButtons ==
    [][ Paginate =>
          LET totalPages == getTotalPages(dataProvider)
          IN  (options.pageButtonCount >= totalPages /\ pageIndex \in 1..totalPages) =>
                 pages' = Def([i \in 1..totalPages |-> i]) ]_vars

\* C12 witness: the scenario's window: page 2 of 3 pages with 5 page
\* buttons gives 1, 2, 3.
C12_ThreePagesFiveButtons ==
    /\ lastCall = RenderCall
    /\ getTotalPages(dataProvider) = 3
    /\ pageIndex = 2
    /\ options.pageButtonCount = 5
    /\ pages = Def(<<1, 2, 3>>)

\* C14: with a page size of false, getTotalPages() is 1 for every total
\* count, and paginate() stores the window 1 for every page index.
C14_OnePageWhenPagingDisabled ==
    [][ dataProvider.pageSize = PageSizeFalse =>
          /\ getTotalPages(dataProvider) = 1
          /\ Paginate => pages' = Def(<<1>>) ]_vars

\* C14 witness: the page size is false, the provider reports several
\* records, the page index is beyond 1 and paginate() has just stored the
\* window 1.
C14_DisabledPagingWindow ==
    /\ lastCall = RenderCall
    /\ dataProvider.pageSize = PageSizeFalse
    /\ dataProvider.totalCount = MaxTotalCount
    /\ pageIndex = 3
    /\ options.pageButtonCount = 3
    /\ pages = Def(<<1>>)


\* C13 (as claimed): once columns were given in the options, or a refresh
\* has shown records (so that the columns were inferred from the first of
\* them), no later step changes the column list.
C13_ColumnsFixedOnceInferred ==
    [][ (initialized /\ (options.columns # <<>> \/ (data.defined /\ data.val # <<>>)))
          => columns' = columns ]_vars

\* C13 (amended): once the column list is not empty, no later step changes it.
C13_ColumnsFixedOnceNotEmpty ==
    [][ columns # <<>> => columns' = columns ]_vars

\* C13 witness: the columns were inferred from the first response; a later
\* response whose first record has other keys is shown, and the columns are
\* still the ones of the first response.
C13_ColumnsOfFirstResponseKept ==
    /\ Len(arrived) = 2
    /\ arrived[1].ok /\ arrived[2].ok
    /\ lastCall = FetchCallback
    /\ data = Def(<< IdRecord, SourceData[1] >>)
    /\ columns = setColumnsFromData(<< SourceData[1] >>)


\* the options name neither a static collection nor an endpoint
NoSource(opts) == opts.url = UndefinedStr /\ ~opts.data.defined

\* C15: a configuration that gives neither data nor url is rejected during
\* initialization: ngOnInit() does not complete and render() is never
\* reached, so nothing is ever shown.
C15_NoSourceRejectedAtInit ==
    NoSource(options) =>
        /\ ~initialized
        /\ lastCall # RenderCall
        /\ ~data.defined


\* C16: setPageSize(s) and setFilter(column, keyword) set the stored page
\* index to 1, whatever it was and whatever the argument: getPageIndex()
\* returns 1 after either call.
C16_SizeAndFilterResetPageIndex ==
    [][ (/\ lastCall' = SetterCall
         /\ \/ \E size \in PageSizes : SetPageSize(size)
            \/ \E c \in FilterColumns, k \in Keywords : SetFilter(c, k))
          => getPageIndex' = 1 ]_vars

\* C16 witness: page 2 of the unfiltered records was rendered at page size
\* 2; since then the page size and the filter were set and the page index
\* is 1, while the provider's page and the records shown are still page 2's.
C16_PageIndexResetAfterPageTwo ==
    /\ lastCall = SetterCall
    /\ dataProvider.page = 2
    /\ data = Def(<< SourceData[3] >>)
    /\ dataProvider.pageSize = 1
    /\ dataProvider.filters["name"] = <<"a">>
    /\ getPageIndex = 1


\* C17 (as claimed): the page index being set by page-button clicks only,
\* when a render() of a local grid with paging has returned and records pass
\* the filters, the page index is within 1..totalPages.
C17_PageIndexInRangeAfterRender ==
    (LocalRenderReturned /\ options.paging /\ dataProvider.totalCount > 0) =>
        (1 <= pageIndex /\ pageIndex <= getTotalPages(dataProvider))

\* the total pages the next render() will find: those of the records passing
\* the current filters at the current page size
PagesToCome(dp) == getTotalPages([dp EXCEPT !.totalCount = FilteredCount(dp)])

\* the page index is a page of the records passing the current filters (if
\* any does); after a render() this is 1 <= pageIndex <= totalPages
PageIndexInRange ==
    (initialized /\ FilteredCount(dataProvider) > 0) =>
        (1 <= pageIndex /\ pageIndex <= PagesToCome(dataProvider))

\* the displayed window is the one a render() with the current filters and
\* page size computes for the page shown
WindowUpToDate ==
    pages = Def(paginate(dataProvider.page, PagesToCome(dataProvider),
                         options.pageButtonCount))

\* the step is a click on a button of a window that is out of date
StaleButtonClick ==
    /\ lastCall' = RenderCall
    /\ ~WindowUpToDate
    /\ \E p \in PageIndexes : OnPageButtonClick(p)

\* C17 (amended): the page index being set by page-button clicks only, it
\* stays within the pages of the records passing the filters through every
\* step except a click on a button of an out-of-date window (one computed
\* before a setFilter or setPageSize that no render has followed yet). So as
\* long as no such click happens, 1 <= pageIndex <= totalPages holds after
\* every render() that finds records.
C17_PageIndexInRangeUnlessStaleClick ==
    [][ (PageIndexInRange /\ ~PageIndexInRange') => StaleButtonClick ]_vars

\* C17 witness: after a filter and a page size were set and rendered, the
\* button of page 2 of the up-to-date window was clicked: page 2 of 2 is
\* shown.
C17_SecondPageOfFilteredRecords ==
    /\ LocalRenderReturned
    /\ options.paging
    /\ dataProvider.filters["name"] = <<"a">>
    /\ dataProvider.pageSize = 1
    /\ dataProvider.sortColumn = "name"
    /\ pageIndex = 2
    /\ getTotalPages(dataProvider) = 2
    /\ Len(data.val) = 1
    /\ pages = Def(<<1, 2>>)


\* C18: once ngOnInit() has returned, getData() is a defined sequence of
\* records in every state, also while a remote grid's first fetch is in
\* flight and after it has failed (getSelectedItems() iterates it).
C18_DataDefinedAfterInit ==
    initialized => getData.defined

====
